---- MODULE Spec2Model ----
(***************************************************************************)
(* Model of the GCP GuardRail policy evaluator (pkg/rego) and of the       *)
(* Kubernetes admission controller built on it (controller/main.go).       *)
(*                                                                         *)
(* The rule engine (OPA) is an external library.  A parsed module is       *)
(* described by what the engine answers for it: the package it declares,   *)
(* the shape and the rules of its "deny" and "warn" collections, and the   *)
(* queries on which the engine raises an error for it.                     *)
(***************************************************************************)
EXTENDS Integers, Sequences, FiniteSets, TLC

\* a nil pointer, a nil error
Nil == [nil |-> TRUE]

(***************************************************************************)
(* Strings that the code takes apart or builds are sequences of one-letter *)
(* strings; Flatten turns such a sequence into a string.                   *)
(***************************************************************************)
RECURSIVE Flatten(_)
Flatten(cs) == IF cs = <<>> THEN "" ELSE Head(cs) \o Flatten(Tail(cs))

UpperLetters == <<"A","B","C","D","E","F","G","H","I","J","K","L","M",
                  "N","O","P","Q","R","S","T","U","V","W","X","Y","Z">>
LowerLetters == <<"a","b","c","d","e","f","g","h","i","j","k","l","m",
                  "n","o","p","q","r","s","t","u","v","w","x","y","z">>

\* strings.ToLower, letter by letter
ToLowerChar(c) ==
    IF \E i \in 1..Len(UpperLetters) : UpperLetters[i] = c
    THEN LowerLetters[CHOOSE i \in 1..Len(UpperLetters) : UpperLetters[i] = c]
    ELSE c

\* a normalizeKind that keeps the kind as written
normalizeKind_Keep(kind) == kind

\* controller/main.go normalizeKind
normalizeKind(kind) == [i \in 1..Len(kind) |-> ToLowerChar(kind[i])]

\* fmt.Sprintf("kubernetes.admission.%s", normalizeKind(kind))
PackagePathOf(kind) == "kubernetes.admission." \o Flatten(normalizeKind(kind))

(***************************************************************************)
(* Rule modules.                                                           *)
(*   shape "absent": the module has no rule of that name                   *)
(*   shape "set":    partial set rules  deny[msg] { ... }  with string     *)
(*                   messages; a rule fires on the operations in its ops   *)
(*   shape "objset": partial set rules whose members are objects           *)
(*   shape "bool":   a complete rule with  default deny = false            *)
(* raises: the queries ("data", "deny", "warn") on which the engine        *)
(* returns an error for this module, per input operation; "compile" means  *)
(* the module does not compile, which fails every query of the evaluator;  *)
(* "hang" means the evaluation of the package does not return.             *)
(* A rule has the operations it fires on, the input.kind it asks for ("" *)
(* for none) and the fields of input.object it asks for (needs).           *)
(***************************************************************************)
Operations == {"CREATE", "UPDATE"}

\* the value the engine sees for a []byte of the input map: a string, in
\* which no field can be looked up
Bytes(doc) == [kind |-> "bytes", doc |-> doc]

\* the value the engine sees for a decoded JSON object
Document(doc) == [kind |-> "object", doc |-> doc]

\* the body of a rule:  input.operation == ..., input.kind == ...,
\* input.object.<field> ...
Fires(r, input) ==
    /\ input.operation \in r.ops
    /\ r.kind = "" \/ input.kind = r.kind
    /\ r.needs = {} \/ (input.object.kind = "object" /\
                         \A n \in r.needs : input.object.doc[n.field] = n.value)

NoRules == [shape |-> "absent", rules |-> {}]

\* messages in the order the engine emits the members of a set (sorted)
MessageOrder ==
    <<"Container 'c1' does not have a liveness probe",
      "Container 'c1' does not have a readiness probe",
      "Container 'c1' does not have resource limits",
      "Container 'c1' uses an image with the 'latest' tag (nginx:latest)",
      "HostPath volume 'v1' mountPath '/etc' is not allowed",
      "Pod hostIPC is not allowed",
      "Pod hostNetwork is not allowed",
      "Pod hostPID is not allowed",
      "Privileged container 'c1' is not allowed",
      "m1", "m2", "w1">>

MsgIndex(m) == CHOOSE i \in 1..Len(MessageOrder) : MessageOrder[i] = m

RECURSIVE SortedSeq(_)
SortedSeq(S) ==
    IF S = {} THEN <<>>
    ELSE LET m == CHOOSE x \in S : \A y \in S : MsgIndex(x) <= MsgIndex(y)
         IN  <<m>> \o SortedSeq(S \ {m})

Collection(m, name) == IF name = "deny" THEN m.deny ELSE m.warn

\* the modules of the evaluator that declare the package
ModulesOf(modules, packagePath) ==
    {p \in DOMAIN modules : modules[p].pkg = packagePath}

Undefined == [kind |-> "undefined"]

(***************************************************************************)
(* rego.New(Query("data.<pkg>.<name>"), Modules(e.modules), Input(input))  *)
(* followed by Eval, for name "deny" or "warn", and for the whole package  *)
(* with name "data".  The answer is an error or a result set; an empty     *)
(* result set is the value Undefined.                                      *)
(***************************************************************************)
\* the package path of a request without kind: "data.kubernetes.admission."
\* is no reference, and the query does not parse
MalformedPath == "kubernetes.admission."

EngineRaises(modules, packagePath, name, input) ==
    \/ \E p \in DOMAIN modules : "compile" \in {f.query : f \in modules[p].raises}
    \/ packagePath = MalformedPath
    \/ \E p \in ModulesOf(modules, packagePath) :
          \E f \in modules[p].raises :
             f.query = name /\ f.op = input.operation
    \/ name # "data" /\
       \E p, q \in ModulesOf(modules, packagePath) :
          /\ Collection(modules[p], name).shape # "absent"
          /\ Collection(modules[q], name).shape # "absent"
          /\ Collection(modules[p], name).shape # Collection(modules[q], name).shape

\* the value of a collection with the bug "one file of the package wins"
CollectionValue_OneModule(modules, packagePath, name, input) ==
    LET ms     == {p \in ModulesOf(modules, packagePath) :
                      Collection(modules[p], name).shape # "absent"}
        shapes == {Collection(modules[p], name).shape : p \in ms}
        one    == CHOOSE p \in ms :
                     \A q \in ms : Cardinality(Collection(modules[p], name).rules)
                                      <= Cardinality(Collection(modules[q], name).rules)
        fired  == {r.msg : r \in {x \in Collection(modules[one], name).rules :
                                     Fires(x, input)}}
    IN  IF ms = {} THEN Undefined
        ELSE IF shapes = {"bool"} THEN [kind |-> "bool", value |-> FALSE]
        ELSE [kind  |-> "array",
              elems |-> [i \in 1..Cardinality(fired) |->
                            [isString |-> shapes = {"set"},
                             text     |-> SortedSeq(fired)[i]]]]

CollectionValue(modules, packagePath, name, input) ==
    LET ms     == {p \in ModulesOf(modules, packagePath) :
                      Collection(modules[p], name).shape # "absent"}
        shapes == {Collection(modules[p], name).shape : p \in ms}
        fired  == UNION {{r.msg : r \in {x \in Collection(modules[p], name).rules :
                                            Fires(x, input)}} : p \in ms}
    IN  IF ms = {} THEN Undefined
        ELSE IF shapes = {"bool"} THEN [kind |-> "bool", value |-> FALSE]
        ELSE [kind  |-> "array",
              elems |-> [i \in 1..Cardinality(fired) |->
                            [isString |-> shapes = {"set"},
                             text     |-> SortedSeq(fired)[i]]]]

\* the evaluation of the package does not return; Eval runs under e.ctx,
\* which is context.Background()
EngineHangs(modules, packagePath, input) ==
    \E p \in ModulesOf(modules, packagePath) :
       \E f \in modules[p].raises : f.query = "hang" /\ f.op = input.operation

RegoEval(modules, packagePath, name, input) ==
    IF EngineRaises(modules, packagePath, name, input)
    THEN [err |-> TRUE, value |-> Undefined]
    ELSE [err   |-> FALSE,
          value |-> IF name = "data" THEN Undefined
                    ELSE CollectionValue(modules, packagePath, name, input)]

(***************************************************************************)
(* pkg/rego: Violation, EvaluationResult, Evaluator.Evaluate               *)
(***************************************************************************)
Violation(message, severity, policy) ==
    [Message |-> message, Severity |-> severity, Policy |-> policy]

\* a result whose failure count takes the warnings in
EvaluationResult_CountAll(violations, warnings) ==
    [Violations |-> violations,
     Warnings   |-> warnings,
     PassCount  |-> 0,
     FailCount  |-> Len(violations) + Len(warnings),
     WarnCount  |-> Len(warnings)]

EvaluationResult(violations, warnings) ==
    [Violations |-> violations,
     Warnings   |-> warnings,
     PassCount  |-> 0,
     FailCount  |-> Len(violations),
     WarnCount  |-> Len(warnings)]

\* violations.([]interface{}) and v.(string): a type assertion that fails panics
AssertionPanics(value) ==
    \/ value.kind = "bool"
    \/ value.kind = "array" /\ \E i \in 1..Len(value.elems) : ~value.elems[i].isString

\* the loop that appends one Violation for each member of the collection
Extract(value, severity, packagePath) ==
    IF value.kind = "array"
    THEN [i \in 1..Len(value.elems) |->
             Violation(value.elems[i].text, severity, packagePath)]
    ELSE <<>>

\* Evaluate with the bug "a package without modules is an error"
Evaluate_UnresolvedIsError(ev, packagePath, input) ==
    IF ModulesOf(ev.modules, packagePath) = {}
    THEN [outcome |-> "error", err |-> "evaluation failed", result |-> Nil]
    ELSE LET denyRs == RegoEval(ev.modules, packagePath, "deny", input)
             warnRs == RegoEval(ev.modules, packagePath, "warn", input)
         IN  IF RegoEval(ev.modules, packagePath, "data", input).err
                \/ denyRs.err \/ warnRs.err
             THEN [outcome |-> "error", err |-> "evaluation failed", result |-> Nil]
             ELSE IF AssertionPanics(denyRs.value) \/ AssertionPanics(warnRs.value)
             THEN [outcome |-> "panic", err |-> "", result |-> Nil]
             ELSE [outcome |-> "ok", err |-> "",
                   result  |-> EvaluationResult(
                                   Extract(denyRs.value, "ERROR", packagePath),
                                   Extract(warnRs.value, "WARNING", packagePath))]

Evaluate(e, packagePath, input) ==
    LET rs     == RegoEval(e.modules, packagePath, "data", input)
        denyRs == RegoEval(e.modules, packagePath, "deny", input)
        warnRs == RegoEval(e.modules, packagePath, "warn", input)
    IN  IF rs.err
        THEN [outcome |-> "error", err |-> "evaluation failed", result |-> Nil]
        ELSE IF EngineHangs(e.modules, packagePath, input)
        THEN [outcome |-> "hang", err |-> "", result |-> Nil]
        ELSE IF denyRs.err
        THEN [outcome |-> "error", err |-> "deny rule evaluation failed", result |-> Nil]
        ELSE IF warnRs.err
        THEN [outcome |-> "error", err |-> "warning rule evaluation failed", result |-> Nil]
        ELSE IF AssertionPanics(denyRs.value) \/ AssertionPanics(warnRs.value)
        THEN [outcome |-> "panic", err |-> "", result |-> Nil]
        ELSE [outcome |-> "ok", err |-> "",
              result  |-> EvaluationResult(
                              Extract(denyRs.value, "ERROR", packagePath),
                              Extract(warnRs.value, "WARNING", packagePath))]

(***************************************************************************)
(* pkg/rego: NewEvaluator and loadPolicies.                                *)
(* A policy directory is given by the entries filepath.Walk visits under   *)
(* it, in the order of the walk.  An entry is a directory or a file; its   *)
(* path is name \o ext.                                                    *)
(***************************************************************************)
PathOf(entry) == entry.name \o entry.ext

\* a suffix test that takes every file for a policy file
HasRegoSuffix_Any(entry) == TRUE

\* strings.HasSuffix(path, ".rego")
HasRegoSuffix(entry) == entry.ext = ".rego"

LoadError(path, why) == [path |-> path, why |-> why]

\* the walk with the bug "a file that cannot be read or parsed is skipped"
RECURSIVE WalkEntries_SkipBad(_, _)
WalkEntries_SkipBad(entries, modules) ==
    IF entries = <<>> THEN [err |-> Nil, modules |-> modules]
    ELSE LET en   == Head(entries)
             path == PathOf(en)
         IN  IF en.walkErr
             THEN [err |-> LoadError(path, "walk"), modules |-> modules]
             ELSE IF ~en.isDir /\ HasRegoSuffix(en) /\ en.readable /\ en.parses
             THEN WalkEntries_SkipBad(Tail(entries),
                     [p \in DOMAIN modules \cup {path} |->
                         IF p = path THEN en.module ELSE modules[p]])
             ELSE WalkEntries_SkipBad(Tail(entries), modules)

\* the callback of filepath.Walk, applied to the entries in turn; the walk
\* stops at the first error
RECURSIVE WalkEntries(_, _)
WalkEntries(entries, modules) ==
    IF entries = <<>> THEN [err |-> Nil, modules |-> modules]
    ELSE LET en   == Head(entries)
             path == PathOf(en)
         IN  IF en.walkErr
             THEN [err |-> LoadError(path, "walk"), modules |-> modules]
             ELSE IF ~en.isDir /\ HasRegoSuffix(en)
             THEN IF ~en.readable
                  THEN [err |-> LoadError(path, "failed to read policy file"),
                        modules |-> modules]
                  ELSE IF ~en.parses
                  THEN [err |-> LoadError(path, "failed to parse policy file"),
                        modules |-> modules]
                  ELSE WalkEntries(Tail(entries),
                          [p \in DOMAIN modules \cup {path} |->
                              IF p = path THEN en.module ELSE modules[p]])
             ELSE WalkEntries(Tail(entries), modules)

RECURSIVE LoadDirs(_, _, _)
LoadDirs(dirs, tree, modules) ==
    IF dirs = <<>> THEN [err |-> Nil, modules |-> modules]
    ELSE LET w == WalkEntries(tree[Head(dirs)], modules)
         IN  IF w.err # Nil
             THEN [err     |-> [dir |-> Head(dirs), path |-> w.err.path, why |-> w.err.why],
                   modules |-> w.modules]
             ELSE LoadDirs(Tail(dirs), tree, w.modules)

\* e.loadPolicies(): the modules map of e after the call, and the error
loadPolicies(policyDirs, tree) == LoadDirs(policyDirs, tree, <<>>)

\* NewEvaluator: the Evaluator, or nil and the error of loadPolicies
NewEvaluator(policyDirs, tree) ==
    LET l == loadPolicies(policyDirs, tree)
    IN  IF l.err # Nil
        THEN [evaluator |-> Nil, err |-> l.err]
        ELSE [evaluator |-> [policyDirs |-> policyDirs, modules |-> l.modules,
                             store |-> {}],
              err       |-> Nil]

(***************************************************************************)
(* controller/main.go: evaluateRequest                                     *)
(***************************************************************************)
\* a join that treats the first violation like the others
RECURSIVE JoinFrom_Leading(_, _, _)
JoinFrom_Leading(violations, i, reason) ==
    IF i > Len(violations) THEN reason
    ELSE JoinFrom_Leading(violations, i + 1,
                          reason \o "; " \o violations[i].Message)

\* the loop of evaluateRequest that joins the violation messages
RECURSIVE JoinFrom(_, _, _)
JoinFrom(violations, i, reason) ==
    IF i > Len(violations) THEN reason
    ELSE JoinFrom(violations, i + 1,
                  IF i = 1 THEN violations[i].Message
                  ELSE reason \o "; " \o violations[i].Message)

\* the input document evaluateRequest builds from the request
AdmissionInput(request) ==
    [kind      |-> Flatten(request.Kind),
     name      |-> request.Name,
     namespace |-> request.Namespace,
     operation |-> request.Operation,
     object    |-> Bytes(request.Object.Raw)]

\* evaluateRequest with the bug "an evaluation error allows the request"
evaluateRequest_FailOpen(ac, request) ==
    LET ev == Evaluate(ac.evaluator, PackagePathOf(request.Kind), AdmissionInput(request))
    IN  IF ev.outcome = "panic"
        THEN [panic |-> TRUE, allowed |-> FALSE, reason |-> "", err |-> "", ev |-> ev]
        ELSE IF ev.outcome = "ok" /\ Len(ev.result.Violations) > 0
        THEN [panic |-> FALSE, allowed |-> FALSE,
              reason |-> JoinFrom(ev.result.Violations, 1, ""), err |-> "", ev |-> ev]
        ELSE [panic |-> FALSE, allowed |-> TRUE, reason |-> "", err |-> "", ev |-> ev]

\* evaluateRequest with the bug "a single violation does not deny"
evaluateRequest_AllowSingle(ac, request) ==
    LET ev == Evaluate(ac.evaluator, PackagePathOf(request.Kind), AdmissionInput(request))
    IN  IF ev.outcome = "panic"
        THEN [panic |-> TRUE, allowed |-> FALSE, reason |-> "", err |-> "", ev |-> ev]
        ELSE IF ev.outcome = "error"
        THEN [panic |-> FALSE, allowed |-> FALSE, reason |-> "",
              err   |-> "policy evaluation failed: " \o ev.err, ev |-> ev]
        ELSE IF Len(ev.result.Violations) > 1
        THEN [panic |-> FALSE, allowed |-> FALSE,
              reason |-> JoinFrom(ev.result.Violations, 1, ""), err |-> "", ev |-> ev]
        ELSE [panic |-> FALSE, allowed |-> TRUE, reason |-> "", err |-> "", ev |-> ev]

\* evaluateRequest with the bug "warnings deny as violations do"
evaluateRequest_WarnBlocks(ac, request) ==
    LET ev == Evaluate(ac.evaluator, PackagePathOf(request.Kind), AdmissionInput(request))
    IN  IF ev.outcome = "panic"
        THEN [panic |-> TRUE, allowed |-> FALSE, reason |-> "", err |-> "", ev |-> ev]
        ELSE IF ev.outcome = "error"
        THEN [panic |-> FALSE, allowed |-> FALSE, reason |-> "",
              err   |-> "policy evaluation failed: " \o ev.err, ev |-> ev]
        ELSE IF Len(ev.result.Violations) + Len(ev.result.Warnings) > 0
        THEN [panic |-> FALSE, allowed |-> FALSE,
              reason |-> JoinFrom(ev.result.Violations \o ev.result.Warnings, 1, ""),
              err |-> "", ev |-> ev]
        ELSE [panic |-> FALSE, allowed |-> TRUE, reason |-> "", err |-> "", ev |-> ev]

\* the fields allowed, reason and err are what evaluateRequest returns; panic
\* says that Evaluate panicked instead, and ev is what Evaluate returned
\* evaluateRequest with the bug "a kind without policy is denied"
evaluateRequest_DenyUnknown(ac, request) ==
    LET input       == AdmissionInput(request)
        packagePath == PackagePathOf(request.Kind)
        ev          == Evaluate(ac.evaluator, packagePath, input)
    IN  IF ev.outcome = "panic"
        THEN [panic |-> TRUE, allowed |-> FALSE, reason |-> "", err |-> "", ev |-> ev]
        ELSE IF ev.outcome = "error"
        THEN [panic |-> FALSE, allowed |-> FALSE, reason |-> "",
              err   |-> "policy evaluation failed: " \o ev.err, ev |-> ev]
        ELSE IF ModulesOf(ac.evaluator.modules, packagePath) = {}
        THEN [panic |-> FALSE, allowed |-> FALSE,
              reason |-> "no policy for kind", err |-> "", ev |-> ev]
        ELSE IF Len(ev.result.Violations) > 0
        THEN [panic |-> FALSE, allowed |-> FALSE,
              reason |-> JoinFrom(ev.result.Violations, 1, ""), err |-> "", ev |-> ev]
        ELSE [panic |-> FALSE, allowed |-> TRUE, reason |-> "", err |-> "", ev |-> ev]

evaluateRequest(ac, request) ==
    LET input       == AdmissionInput(request)
        packagePath == PackagePathOf(request.Kind)
        ev          == Evaluate(ac.evaluator, packagePath, input)
    IN  IF ev.outcome = "hang"
        THEN \* Evaluate does not return, and neither does evaluateRequest
             [panic |-> FALSE, allowed |-> FALSE, reason |-> "", err |-> "", ev |-> ev,
              packagePath |-> packagePath]
        ELSE IF ev.outcome = "panic"
        THEN [panic |-> TRUE, allowed |-> FALSE, reason |-> "", err |-> "", ev |-> ev,
              packagePath |-> packagePath]
        ELSE IF ev.outcome = "error"
        THEN [panic |-> FALSE, allowed |-> FALSE, reason |-> "",
              err   |-> "policy evaluation failed: " \o ev.err, ev |-> ev,
              packagePath |-> packagePath]
        ELSE IF Len(ev.result.Violations) > 0
        THEN [panic |-> FALSE, allowed |-> FALSE,
              reason |-> JoinFrom(ev.result.Violations, 1, ""), err |-> "", ev |-> ev,
              packagePath |-> packagePath]
        ELSE [panic |-> FALSE, allowed |-> TRUE, reason |-> "", err |-> "", ev |-> ev,
              packagePath |-> packagePath]

(***************************************************************************)
(* The inputs of the controller: the policy directories on disk and the    *)
(* HTTP requests.                                                          *)
(***************************************************************************)
Rule(ops, msg) == [ops |-> ops, kind |-> "", needs |-> {}, msg |-> msg]

\* a rule of the pod package: input.operation == "CREATE", input.kind == "Pod"
PodRule(needs, msg) == [ops |-> {"CREATE"}, kind |-> "Pod", needs |-> needs, msg |-> msg]

Need(field, value) == [field |-> field, value |-> value]

Module(pkg, deny, warn, raises) ==
    [pkg |-> pkg, deny |-> deny, warn |-> warn, raises |-> raises]

Raise(query, op) == [query |-> query, op |-> op]

Dir(name) ==
    [name |-> name, ext |-> "", isDir |-> TRUE, walkErr |-> FALSE,
     readable |-> TRUE, parses |-> FALSE, module |-> Nil]

MissingDir(name) ==
    [name |-> name, ext |-> "", isDir |-> FALSE, walkErr |-> TRUE,
     readable |-> FALSE, parses |-> FALSE, module |-> Nil]

File(name, ext, readable, parses, module) ==
    [name |-> name, ext |-> ext, isDir |-> FALSE, walkErr |-> FALSE,
     readable |-> readable, parses |-> parses, module |-> module]

PodPackage == "kubernetes.admission.pod"
JobPackage == "kubernetes.admission.job"
SecretPackage == "kubernetes.admission.secret"

PodModule ==
    Module(PodPackage,
           [shape |-> "set", rules |-> {Rule({"CREATE"}, "m1")}],
           [shape |-> "set", rules |-> {Rule({"CREATE", "UPDATE"}, "w1")}],
           {})

\* a second file of the pod package; its warn query raises on UPDATE
PodModule2 ==
    Module(PodPackage,
           [shape |-> "set", rules |-> {Rule({"CREATE"}, "m1"), Rule({"CREATE"}, "m2")}],
           NoRules,
           {Raise("warn", "UPDATE")})

\* deny rules that fire on DELETE only; the deny query raises on UPDATE
JobModule ==
    Module(JobPackage,
           [shape |-> "set", rules |-> {Rule({"DELETE"}, "m2")}],
           NoRules,
           {Raise("deny", "UPDATE")})

\* deny is a boolean with a default, as in the vertex.* policies
BoolModule ==
    Module(JobPackage, [shape |-> "bool", rules |-> {}], NoRules, {})

\* warn has object members on CREATE; the package query raises on UPDATE
SecretModule ==
    Module(SecretPackage,
           NoRules,
           [shape |-> "objset", rules |-> {Rule({"CREATE"}, "w1")}],
           {Raise("data", "UPDATE")})

PrivilegedMessage == "Privileged container 'c1' is not allowed"

\* the deny rules of package kubernetes.admission.pod, but the last
PodDenyRules ==
    {PodRule({Need("privileged", TRUE)}, PrivilegedMessage),
     PodRule({Need("hostPID", TRUE)}, "Pod hostPID is not allowed"),
     PodRule({Need("hostIPC", TRUE)}, "Pod hostIPC is not allowed"),
     PodRule({Need("hostNetwork", TRUE)}, "Pod hostNetwork is not allowed"),
     PodRule({Need("hostPath", TRUE)},
             "HostPath volume 'v1' mountPath '/etc' is not allowed"),
     PodRule({Need("limits", FALSE)}, "Container 'c1' does not have resource limits"),
     PodRule({Need("latest", TRUE)},
             "Container 'c1' uses an image with the 'latest' tag (nginx:latest)")}

\* the warn rules of package kubernetes.admission.pod
PodWarnRules ==
    {PodRule({Need("liveness", FALSE)}, "Container 'c1' does not have a liveness probe"),
     PodRule({Need("readiness", FALSE)}, "Container 'c1' does not have a readiness probe")}

\* package kubernetes.admission.pod.  Its last deny rule subtracts a set from
\* an array (required_labels - provided_labels); minus is declared for
\* numbers and for sets, so the engine's type checker rejects the module.
PodPolicy ==
    Module(PodPackage,
           [shape |-> "set", rules |-> PodDenyRules],
           [shape |-> "set", rules |-> PodWarnRules],
           {Raise("compile", "CREATE")})

\* the same package under an engine that does not check the types of the
\* operands: the subtraction is undefined when the rule is evaluated, and
\* the rule yields no message
PodPolicyUnchecked ==
    Module(PodPackage,
           [shape |-> "set", rules |-> PodDenyRules],
           [shape |-> "set", rules |-> PodWarnRules],
           {})

DiskPod ==
    [policyDirs |-> <<"policies/kubernetes">>,
     tree |-> [d \in {"policies/kubernetes"} |->
        <<Dir("policies/kubernetes"),
          File("policies/kubernetes/pod", ".rego", TRUE, TRUE, PodPolicy)>>]]

DiskPodUnchecked ==
    [policyDirs |-> <<"policies/kubernetes">>,
     tree |-> [d \in {"policies/kubernetes"} |->
        <<Dir("policies/kubernetes"),
          File("policies/kubernetes/pod", ".rego", TRUE, TRUE, PodPolicyUnchecked)>>]]

DiskA ==
    [policyDirs |-> <<"policies/kubernetes">>,
     tree |-> [d \in {"policies/kubernetes"} |->
        <<Dir("policies/kubernetes"),
          File("policies/kubernetes/NOTES", ".md", TRUE, FALSE, Nil),
          File("policies/kubernetes/job", ".rego", TRUE, TRUE, JobModule),
          Dir("policies/kubernetes/pods"),
          File("policies/kubernetes/pods/pod", ".rego", TRUE, TRUE, PodModule)>>]]

DiskB ==
    [policyDirs |-> <<"policies/kubernetes", "policies/extra">>,
     tree |-> [d \in {"policies/kubernetes", "policies/extra"} |->
        IF d = "policies/kubernetes"
        THEN <<Dir("policies/kubernetes"),
               File("policies/kubernetes/pod", ".rego", TRUE, TRUE, PodModule)>>
        ELSE <<Dir("policies/extra"),
               File("policies/extra/job", ".rego", TRUE, TRUE, BoolModule),
               File("policies/extra/pod", ".rego", TRUE, TRUE, PodModule2),
               File("policies/extra/secret", ".rego", TRUE, TRUE, SecretModule)>>]]

\* a file that does not parse, between two files that do
DiskBadParse ==
    [policyDirs |-> <<"policies/kubernetes">>,
     tree |-> [d \in {"policies/kubernetes"} |->
        <<Dir("policies/kubernetes"),
          File("policies/kubernetes/a_pod", ".rego", TRUE, TRUE, PodModule),
          File("policies/kubernetes/broken", ".rego", TRUE, FALSE, Nil),
          File("policies/kubernetes/job", ".rego", TRUE, TRUE, JobModule)>>]]

\* the second directory holds a file that cannot be read and, after it, a
\* file that does not parse
DiskBadRead ==
    [policyDirs |-> <<"policies/kubernetes", "policies/extra">>,
     tree |-> [d \in {"policies/kubernetes", "policies/extra"} |->
        IF d = "policies/kubernetes"
        THEN <<Dir("policies/kubernetes"),
               File("policies/kubernetes/pod", ".rego", TRUE, TRUE, PodModule)>>
        ELSE <<Dir("policies/extra"),
               File("policies/extra/locked", ".rego", FALSE, TRUE, JobModule),
               File("policies/extra/zz", ".rego", TRUE, FALSE, Nil)>>]]

\* the policy directory does not exist
DiskMissing ==
    [policyDirs |-> <<"policies/kubernetes">>,
     tree |-> [d \in {"policies/kubernetes"} |-> <<MissingDir("policies/kubernetes")>>]]

Disks == {DiskA, DiskB, DiskBadParse, DiskBadRead, DiskMissing}

ContentTypes == {"application/json", "text/plain"}

Kinds == {<<"P","o","d">>, <<"J","o","b">>, <<"S","e","c","r","e","t">>}

UIDs == {"u1", "u2"}

\* the pod of a request, by what the pod package asks of it: one container
\* c1 with image nginx, one volume v1
GoodPod ==
    [privileged |-> FALSE, hostPID |-> FALSE, hostIPC |-> FALSE,
     hostNetwork |-> FALSE, hostPath |-> FALSE, limits |-> TRUE,
     liveness |-> TRUE, readiness |-> TRUE, latest |-> FALSE, labels |-> TRUE]

PrivilegedPod == [GoodPod EXCEPT !.privileged = TRUE]

AdmissionRequestOf(uid, kind, op, doc) ==
    [UID |-> uid, Kind |-> kind, Name |-> "web", Namespace |-> "default",
     Operation |-> op, Object |-> [Raw |-> doc]]

AdmissionRequest(uid, kind, op) == AdmissionRequestOf(uid, kind, op, GoodPod)

\* what the handler reads from the connection: nothing, bytes that are no
\* AdmissionReview, or an AdmissionReview with or without its request
Bodies ==
    {[class |-> "empty"], [class |-> "garbage"], [class |-> "review", Request |-> Nil]}
    \cup {[class |-> "review", Request |-> AdmissionRequest(u, k, o)] :
             u \in UIDs, k \in Kinds, o \in Operations}

HttpRequests == [contentType : ContentTypes, body : Bodies]

\* admission reviews about pods: the kind as the API server writes it, in
\* capitals, of a resource without policy, and missing
GateKinds == {<<"P","o","d">>, <<"P","O","D">>, <<"S","e","c","r","e","t">>, <<>>}

GatePods == {GoodPod, PrivilegedPod}

GateRequests ==
    {[contentType |-> "application/json",
      body |-> [class |-> "review", Request |-> AdmissionRequestOf("u1", k, o, d)]] :
        k \in GateKinds, o \in Operations, d \in GatePods}

\* Decode with the bug "bytes that are no AdmissionReview decode to an empty one"
Decode_Lenient(body) ==
    IF body.class = "review"
    THEN [err |-> FALSE, reviewRequest |-> [Request |-> body.Request]]
    ELSE [err |-> FALSE, reviewRequest |-> [Request |-> Nil]]

\* deserializer.Decode(body, nil, &reviewRequest)
Decode(body) ==
    IF body.class = "review"
    THEN [err |-> FALSE, reviewRequest |-> [Request |-> body.Request]]
    ELSE [err |-> TRUE, reviewRequest |-> [Request |-> Nil]]

(***************************************************************************)
(* The controller process: main loads the policies and starts the server;  *)
(* the server runs one handler per request, concurrently.                  *)
(***************************************************************************)
\* number of admission requests the server is given
NReq == 2

VARIABLES
    disk,      \* the policy directories of the process ([policyDirs, tree])
    mainPc,    \* "start", "created", "serving" or "exited" (log.Fatal)
    ac,        \* the admissionController of main, or Nil
    fatal,     \* the error main died of, or Nil
    conns,     \* one record per request: the handler's position and its reply
    health,    \* the last reply of the health endpoint
    e,         \* an Evaluator used as a library (SpecEval), or Nil
    calls,     \* the calls of Evaluate made on e: package path, input, return
    allCalls,  \* the calls of EvaluateAll made on e: input, return
    applied    \* the applications of a function of the gateway on its own

gwVars == <<disk, mainPc, ac, fatal, conns, health>>

evVars == <<e, calls, allCalls>>

unitVars == <<applied>>

vars == <<gwVars, evVars, unitVars>>

StatusOK == 200
StatusBadRequest == 400
StatusUnsupportedMediaType == 415

NoReply == 0

NoResponse == [UID |-> "", Allowed |-> FALSE, Result |-> Nil]

\* no call of Evaluate was made
NoEval == [outcome |-> "", err |-> "", result |-> Nil]

\* contentType and bodyClass: what the client sent; decoded: Decode returned
\* no error; request: the decoded request; status and response: the reply;
\* evalCalls and ev: the calls of Evaluate made for it and what the last
\* returned; gone: the client went away while the evaluation was running
IdleConn ==
    [pc |-> "idle", contentType |-> "", bodyClass |-> "", decoded |-> FALSE,
     request |-> Nil, status |-> NoReply, response |-> NoResponse,
     evalCalls |-> 0, ev |-> NoEval, gone |-> FALSE]

\* the content type check with the bug "every content type is accepted"
ContentTypeOK_Any(contentType) == TRUE

\* contentType != "application/json" is rejected
ContentTypeOK(contentType) == contentType = "application/json"

\* the response with the bug "the uid is not taken from the request"
InitResponse_FixedUID(reviewRequest) ==
    [UID |-> "u1", Allowed |-> FALSE, Result |-> Nil]

\* the AdmissionReview response as initialised before the evaluation
InitResponse(reviewRequest) ==
    [UID |-> reviewRequest.Request.UID, Allowed |-> FALSE, Result |-> Nil]

\* json.NewEncoder(w).Encode(reviewResponse) writes the header with 200
EncodeStatus(response) == StatusOK

NoHealth == [status |-> NoReply, payload |-> "", after400 |-> FALSE, duringEval |-> FALSE]

Init ==
    /\ disk \in Disks
    /\ mainPc = "start"
    /\ ac = Nil
    /\ fatal = Nil
    /\ conns = [i \in 1..NReq |-> IdleConn]
    /\ health = NoHealth
    /\ e = Nil
    /\ calls = <<>>
    /\ allCalls = <<>>
    /\ applied = <<>>

\* newAdmissionController, and main's log.Fatalf when it fails
newAdmissionController ==
    /\ mainPc = "start"
    /\ LET ne == NewEvaluator(disk.policyDirs, disk.tree)
       IN  IF ne.err # Nil
           THEN /\ mainPc' = "exited"
                /\ fatal' = ne.err
                /\ ac' = Nil
           ELSE /\ mainPc' = "created"
                /\ fatal' = Nil
                /\ ac' = [evaluator |-> ne.evaluator]
    /\ UNCHANGED <<disk, conns, health, evVars, unitVars>>

\* server.ListenAndServe starts serving
ListenAndServe ==
    /\ mainPc = "created"
    /\ mainPc' = "serving"
    /\ UNCHANGED <<disk, ac, fatal, conns, health, evVars, unitVars>>

\* server.ListenAndServe returns an error: log.Fatal
ListenFails ==
    /\ mainPc = "created"
    /\ mainPc' = "exited"
    /\ fatal' = [dir |-> "", path |-> "", why |-> "listen"]
    /\ UNCHANGED <<disk, ac, conns, health, evVars, unitVars>>

\* handleAdmissionRequest, lines 50-80: read the body, check the content
\* type, decode, initialise the response.  reviewRequest.Request.UID
\* dereferences a nil pointer when the review has no request; the server
\* recovers the panic of a handler and closes its connection.
Receive(i, r) ==
    /\ mainPc = "serving"
    /\ conns[i].pc = "idle"
    /\ LET d    == Decode(r.body)
           sent == [conns[i] EXCEPT !.contentType = r.contentType,
                                    !.bodyClass = r.body.class]
       IN  conns' = [conns EXCEPT ![i] =
              IF ~ContentTypeOK(r.contentType)
              THEN [sent EXCEPT !.pc = "done", !.status = StatusUnsupportedMediaType]
              ELSE IF d.err
              THEN [sent EXCEPT !.pc = "done", !.status = StatusBadRequest]
              ELSE IF d.reviewRequest.Request = Nil
              THEN [sent EXCEPT !.pc = "panicked", !.decoded = TRUE]
              ELSE [sent EXCEPT !.pc = "evaluate", !.decoded = TRUE,
                                !.request = d.reviewRequest.Request,
                                !.response = InitResponse(d.reviewRequest)]]
    /\ UNCHANGED <<disk, mainPc, ac, fatal, health, evVars, unitVars>>

\* the handler of connection i is at line 82 and evaluateRequest returns:
\* while the engine does not return, the handler waits and nothing is sent
CanRespond(i) ==
    /\ mainPc = "serving"
    /\ conns[i].pc = "evaluate"
    /\ evaluateRequest(ac, conns[i].request).ev.outcome # "hang"

\* the handler with the bug "an evaluation drops the modules it used from
\* the module map the handlers share"
Respond_Consuming(i) ==
    /\ CanRespond(i)
    /\ LET r      == evaluateRequest(ac, conns[i].request)
           called == [conns[i] EXCEPT !.evalCalls = @ + 1, !.ev = r.ev]
           response ==
              IF r.err # ""
              THEN [called.response EXCEPT
                       !.Allowed = FALSE,
                       !.Result = [Message |-> "Error evaluating request: " \o r.err]]
              ELSE [called.response EXCEPT
                       !.Allowed = r.allowed,
                       !.Result = IF ~r.allowed THEN [Message |-> r.reason] ELSE Nil]
       IN  conns' = [conns EXCEPT ![i] =
              IF r.panic
              THEN [called EXCEPT !.pc = "panicked"]
              ELSE [called EXCEPT !.pc = "done", !.response = response,
                                  !.status = EncodeStatus(response)]]
    /\ ac' = [ac EXCEPT !.evaluator.modules =
                 [p \in DOMAIN @ \ ModulesOf(@, PackagePathOf(conns[i].request.Kind)) |->
                     @[p]]]
    /\ UNCHANGED <<disk, mainPc, fatal, health, evVars, unitVars>>

\* handleAdmissionRequest, lines 82-101: evaluate, decide, send the response
Respond(i) ==
    /\ CanRespond(i)
    /\ LET r      == evaluateRequest(ac, conns[i].request)
           called == [conns[i] EXCEPT !.evalCalls = @ + 1, !.ev = r.ev]
           response ==
              IF r.err # ""
              THEN [called.response EXCEPT
                       !.Allowed = FALSE,
                       !.Result = [Message |-> "Error evaluating request: " \o r.err]]
              ELSE [called.response EXCEPT
                       !.Allowed = r.allowed,
                       !.Result = IF ~r.allowed THEN [Message |-> r.reason] ELSE Nil]
       IN  conns' = [conns EXCEPT ![i] =
              IF r.panic
              THEN [called EXCEPT !.pc = "panicked"]
              ELSE [called EXCEPT !.pc = "done", !.response = response,
                                  !.status = EncodeStatus(response)]]
    /\ UNCHANGED <<disk, mainPc, ac, fatal, health, evVars, unitVars>>

HealthPayload == "{\"status\":\"ok\"}"

\* the health handler with the bug "it waits for the evaluations in progress"
healthCheckHandler_Blocking ==
    /\ mainPc = "serving"
    /\ \A i \in 1..NReq : conns[i].pc # "evaluate"
    /\ health' = [status     |-> StatusOK,
                  payload    |-> HealthPayload,
                  after400   |-> \E i \in 1..NReq : conns[i].status = StatusBadRequest,
                  duringEval |-> FALSE]
    /\ UNCHANGED <<disk, mainPc, ac, fatal, conns, evVars, unitVars>>

\* healthCheckHandler
healthCheckHandler ==
    /\ mainPc = "serving"
    /\ health' = [status     |-> StatusOK,
                  payload    |-> HealthPayload,
                  after400   |-> \E i \in 1..NReq : conns[i].status = StatusBadRequest,
                  duringEval |-> \E i \in 1..NReq : conns[i].pc = "evaluate"]
    /\ UNCHANGED <<disk, mainPc, ac, fatal, conns, evVars, unitVars>>

Next ==
    \/ newAdmissionController
    \/ ListenAndServe
    \/ ListenFails
    \/ \E i \in 1..NReq : \E r \in HttpRequests : Receive(i, r)
    \/ \E i \in 1..NReq : Respond(i)
    \/ healthCheckHandler

Spec == Init /\ [][Next]_vars

(***************************************************************************)
(* The admission path of the controller alone: the server is given         *)
(* well-formed admission reviews only, and no health checks.               *)
(***************************************************************************)
ServeRequests ==
    {[contentType |-> "application/json",
      body |-> [class |-> "review", Request |-> AdmissionRequest(u, k, o)]] :
        u \in UIDs, k \in Kinds, o \in Operations}

NextServe ==
    \/ newAdmissionController
    \/ ListenAndServe
    \/ \E i \in 1..NReq : \E r \in ServeRequests : Receive(i, r)
    \/ \E i \in 1..NReq : Respond(i)

SpecServe == Init /\ [][NextServe]_vars

(***************************************************************************)
(* The controller with the pod policy of the repository loaded, given      *)
(* admission reviews about pods.                                           *)
(***************************************************************************)
GateDisks == {DiskPod, DiskPodUnchecked}

InitGate ==
    /\ disk \in GateDisks
    /\ mainPc = "start"
    /\ ac = Nil
    /\ fatal = Nil
    /\ conns = [i \in 1..NReq |-> IdleConn]
    /\ health = NoHealth
    /\ e = Nil
    /\ calls = <<>>
    /\ allCalls = <<>>
    /\ applied = <<>>

NextGate ==
    \/ newAdmissionController
    \/ ListenAndServe
    \/ \E i \in 1..NReq : \E r \in GateRequests : Receive(i, r)
    \/ \E i \in 1..NReq : Respond(i)

SpecGate == InitGate /\ [][NextGate]_vars

(***************************************************************************)
(* The controller with a rule whose evaluation does not return, and        *)
(* clients that go away.  The handlers are goroutines of the server and    *)
(* main is the main goroutine: each of them takes its next step when it    *)
(* can.  The weak fairness of Respond(i) is written out, CanRespond(i)     *)
(* being what ENABLED <<Respond(i)>>_vars comes to.                        *)
(***************************************************************************)
\* the evaluation of the job package does not return on UPDATE
HangModule ==
    Module(JobPackage,
           [shape |-> "set", rules |-> {Rule({"CREATE"}, "m1")}],
           NoRules,
           {Raise("hang", "UPDATE")})

DiskHang ==
    [policyDirs |-> <<"policies/kubernetes">>,
     tree |-> [d \in {"policies/kubernetes"} |->
        <<Dir("policies/kubernetes"),
          File("policies/kubernetes/job", ".rego", TRUE, TRUE, HangModule),
          File("policies/kubernetes/pod", ".rego", TRUE, TRUE, PodModule)>>]]

LiveRequests ==
    {[contentType |-> "application/json",
      body |-> [class |-> "review", Request |-> AdmissionRequest("u1", k, o)]] :
        k \in {<<"P","o","d">>, <<"J","o","b">>}, o \in Operations}

\* the client of connection i goes away while its request is evaluated: the
\* context of the request is cancelled.  The handler evaluates under the
\* context of the evaluator and never looks at r.Context().
Disconnect(i) ==
    /\ conns[i].pc = "evaluate"
    /\ ~conns[i].gone
    /\ conns' = [conns EXCEPT ![i].gone = TRUE]
    /\ UNCHANGED <<disk, mainPc, ac, fatal, health, evVars, unitVars>>

InitLive ==
    /\ disk = DiskHang
    /\ mainPc = "start"
    /\ ac = Nil
    /\ fatal = Nil
    /\ conns = [i \in 1..NReq |-> IdleConn]
    /\ health = NoHealth
    /\ e = Nil
    /\ calls = <<>>
    /\ allCalls = <<>>
    /\ applied = <<>>

NextLive ==
    \/ newAdmissionController
    \/ ListenAndServe
    \/ \E i \in 1..NReq : \E r \in LiveRequests : Receive(i, r)
    \/ \E i \in 1..NReq : Respond(i)
    \/ \E i \in 1..NReq : Disconnect(i)

SpecLive ==
    /\ InitLive
    /\ [][NextLive]_vars
    /\ WF_vars(newAdmissionController)
    /\ WF_vars(ListenAndServe)
    /\ \A i \in 1..NReq : []<>(~CanRespond(i)) \/ []<><<Respond(i)>>_vars

(***************************************************************************)
(* The evaluator as a library: an Evaluator made by NewEvaluator from a    *)
(* directory of policy files, and calls of Evaluate on it (playground,     *)
(* command line tools).                                                    *)
(***************************************************************************)
\* number of calls made on the evaluator
MaxCalls == 2

\* a module that parses but does not compile (a type error in a rule body)
UncompilableModule ==
    Module("vertex.model_monitoring", NoRules, NoRules, {Raise("compile", "CREATE")})

\* the policy files a directory may hold, in the order of the walk
ModuleFiles ==
    <<File("policies/bool", ".rego", TRUE, TRUE, BoolModule),
      File("policies/job", ".rego", TRUE, TRUE, JobModule),
      File("policies/pod", ".rego", TRUE, TRUE, PodModule),
      File("policies/pod2", ".rego", TRUE, TRUE, PodModule2),
      File("policies/secret", ".rego", TRUE, TRUE, SecretModule),
      File("policies/vertex", ".rego", TRUE, TRUE, UncompilableModule)>>

RECURSIVE SubSeq2(_, _, _)
SubSeq2(seq, keep, i) ==
    IF i > Len(seq) THEN <<>>
    ELSE (IF i \in keep THEN <<seq[i]>> ELSE <<>>) \o SubSeq2(seq, keep, i + 1)

EvalDisk(keep) ==
    [policyDirs |-> <<"policies">>,
     tree |-> [d \in {"policies"} |-> <<Dir("policies")>> \o SubSeq2(ModuleFiles, keep, 1)]]

\* two roots, one inside the other, both written relative to the working
\* directory: the walk of either reports the file under the same path
DiskOverlap ==
    [policyDirs |-> <<"policies", "policies/kubernetes">>,
     tree |-> [d \in {"policies", "policies/kubernetes"} |->
        IF d = "policies"
        THEN <<Dir("policies"),
               File("policies/NOTES", ".md", TRUE, TRUE, Nil),
               Dir("policies/kubernetes"),
               File("policies/kubernetes/pod", ".rego", TRUE, TRUE, PodModule),
               File("policies/kubernetes/pod.rego", ".bak", TRUE, TRUE, PodModule2),
               [Dir("policies/old") EXCEPT !.ext = ".rego"]>>
        ELSE <<Dir("policies/kubernetes"),
               File("policies/kubernetes/pod", ".rego", TRUE, TRUE, PodModule)>>]]

\* the same two directories with the outer root written as an absolute
\* path: filepath.Walk reports each file as the root joined with the rest
DiskMixed ==
    [policyDirs |-> <<"/app/policies", "policies/kubernetes">>,
     tree |-> [d \in {"/app/policies", "policies/kubernetes"} |->
        IF d = "/app/policies"
        THEN <<Dir("/app/policies"),
               Dir("/app/policies/kubernetes"),
               File("/app/policies/kubernetes/pod", ".rego", TRUE, TRUE, PodModule)>>
        ELSE <<Dir("policies/kubernetes"),
               File("policies/kubernetes/pod", ".rego", TRUE, TRUE, PodModule)>>]]

\* the paths of the fixtures that are absolute; the working directory of the
\* process is /app
AbsolutePaths ==
    {"/app/policies", "/app/policies/kubernetes", "/app/policies/kubernetes/pod.rego"}

\* filepath.Abs
Abs(path) == IF path \in AbsolutePaths THEN path ELSE "/app/" \o path

EvalDisks ==
    {EvalDisk(keep) : keep \in SUBSET (1..Len(ModuleFiles))}
    \cup {DiskOverlap, DiskMixed}

PackagePaths == {PodPackage, JobPackage, SecretPackage, MalformedPath}

EvalInputs ==
    {[kind |-> "Pod", name |-> "web", namespace |-> "default",
      operation |-> o, object |-> Document(GoodPod)] : o \in Operations}

InitEval ==
    /\ disk \in EvalDisks
    /\ mainPc = "start"
    /\ ac = Nil
    /\ fatal = Nil
    /\ conns = [i \in 1..NReq |-> IdleConn]
    /\ health = NoHealth
    /\ e = NewEvaluator(disk.policyDirs, disk.tree).evaluator
    /\ calls = <<>>
    /\ allCalls = <<>>
    /\ applied = <<>>

\* the caller of the library has not panicked
CallerRuns ==
    /\ \A i \in 1..Len(calls) : calls[i].ret.outcome # "panic"
    /\ \A i \in 1..Len(allCalls) : allCalls[i].ret.outcome # "panic"

\* Evaluate with the bug "the modules of the evaluated package are dropped
\* from the evaluator"
CallEvaluate_Consuming(packagePath, input) ==
    /\ e # Nil
    /\ Len(calls) + Len(allCalls) < MaxCalls
    /\ CallerRuns
    /\ calls' = Append(calls, [packagePath |-> packagePath, input |-> input,
                               ret |-> Evaluate(e, packagePath, input)])
    /\ e' = [e EXCEPT !.modules =
                [p \in DOMAIN e.modules \ ModulesOf(e.modules, packagePath) |->
                    e.modules[p]]]
    /\ UNCHANGED <<allCalls, gwVars, unitVars>>

\* a caller of e.Evaluate(packagePath, input); a panic ends the caller
CallEvaluate(packagePath, input) ==
    /\ e # Nil
    /\ Len(calls) + Len(allCalls) < MaxCalls
    /\ CallerRuns
    /\ calls' = Append(calls, [packagePath |-> packagePath, input |-> input,
                               ret |-> Evaluate(e, packagePath, input)])
    /\ UNCHANGED <<e, allCalls, gwVars, unitVars>>

\* the keys of the map packagePaths: the package paths the modules declare
DistinctPackages(modules) == {modules[p].pkg : p \in DOMAIN modules}

\* the orders in which  for packagePath := range packagePaths  may go
\* through the map
Orders(S) ==
    {o \in [1..Cardinality(S) -> S] : \A x \in S : \E i \in 1..Cardinality(S) : o[i] = x}

\* the loop of EvaluateAll from position i of the order: evaluated is the log
\* of the calls of Evaluate made so far, results the slice appended to so far
RECURSIVE EvaluateEach(_, _, _, _, _, _)
EvaluateEach(ev, input, order, i, evaluated, results) ==
    IF i > Len(order)
    THEN [outcome |-> "ok", err |-> "", results |-> results, evaluated |-> evaluated]
    ELSE LET packagePath == order[i]
             r    == Evaluate(ev, packagePath, input)
             made == Append(evaluated, [packagePath |-> packagePath,
                                        input |-> input, ret |-> r])
         IN  IF r.outcome \in {"panic", "hang"}
             THEN [outcome |-> r.outcome, err |-> "", results |-> <<>>,
                   evaluated |-> made]
             ELSE IF r.outcome = "error"
             THEN [outcome   |-> "error",
                   err       |-> "failed to evaluate package " \o packagePath
                                 \o ": " \o r.err,
                   results   |-> <<>>,
                   evaluated |-> made]
             ELSE EvaluateEach(ev, input, order, i + 1, made,
                               Append(results, r.result))

\* Evaluator.EvaluateAll, the map being gone through in the given order
EvaluateAll(ev, input, order) == EvaluateEach(ev, input, order, 1, <<>>, <<>>)

\* EvaluateAll with the bug "the input is written to the store"
CallEvaluateAll_StoresInput(input) ==
    /\ e # Nil
    /\ Len(calls) + Len(allCalls) < MaxCalls
    /\ CallerRuns
    /\ \E order \in Orders(DistinctPackages(e.modules)) :
          allCalls' = Append(allCalls, [input |-> input,
                                        ret   |-> EvaluateAll(e, input, order)])
    /\ e' = [e EXCEPT !.store = @ \cup {input}]
    /\ UNCHANGED <<calls, gwVars, unitVars>>

\* a caller of e.EvaluateAll(input)
CallEvaluateAll(input) ==
    /\ e # Nil
    /\ Len(calls) + Len(allCalls) < MaxCalls
    /\ CallerRuns
    /\ \E order \in Orders(DistinctPackages(e.modules)) :
          allCalls' = Append(allCalls, [input |-> input,
                                        ret   |-> EvaluateAll(e, input, order)])
    /\ UNCHANGED <<e, calls, gwVars, unitVars>>

NextEval ==
    \/ \E packagePath \in PackagePaths : \E input \in EvalInputs :
          CallEvaluate(packagePath, input)
    \/ \E input \in EvalInputs : CallEvaluateAll(input)

SpecEval == InitEval /\ [][NextEval]_vars

(***************************************************************************)
(* Properties of the admission controller (Spec).                          *)
(***************************************************************************)
(***************************************************************************)
(* The loop of evaluateRequest that builds the reason, on its own: it is   *)
(* given results as Evaluate may return them, the violations in any order. *)
(***************************************************************************)
JoinMessages == {"m1", "m2", "w1"}

JoinResults ==
    {EvaluationResult([k \in DOMAIN o |-> Violation(o[k], "high", PodPackage)], <<>>) :
        o \in UNION {Orders(S) : S \in SUBSET JoinMessages}}

InitJoin ==
    /\ disk = DiskA
    /\ mainPc = "start"
    /\ ac = Nil
    /\ fatal = Nil
    /\ conns = [i \in 1..NReq |-> IdleConn]
    /\ health = NoHealth
    /\ e = Nil
    /\ calls = <<>>
    /\ allCalls = <<>>
    /\ applied = <<>>

\* if len(result.Violations) > 0 { ... return false, reason, nil };
\* return true, "", nil
JoinViolations(result) ==
    /\ Len(applied) < MaxCalls
    /\ applied' = Append(applied,
          [result |-> result,
           allowed |-> Len(result.Violations) = 0,
           reason |-> JoinFrom(result.Violations, 1, "")])
    /\ UNCHANGED <<gwVars, evVars>>

NextJoin == \E result \in JoinResults : JoinViolations(result)

SpecJoin == InitJoin /\ [][NextJoin]_vars

(***************************************************************************)
(* evaluateRequest on its own, with the pod policy loaded: it is given     *)
(* admission requests that differ in kind, name, namespace, operation and  *)
(* object.                                                                 *)
(***************************************************************************)
RouteKinds == {<<"P","o","d">>, <<"P","O","D">>, <<"S","e","c","r","e","t">>}

RouteRequests ==
    {[AdmissionRequestOf("u1", k, o, d) EXCEPT !.Name = n, !.Namespace = ns] :
        k \in RouteKinds, o \in Operations, d \in GatePods,
        n \in {"web", "db"}, ns \in {"default", "prod"}}

InitRoute ==
    /\ disk = DiskPodUnchecked
    /\ mainPc = "created"
    /\ ac = [evaluator |-> NewEvaluator(disk.policyDirs, disk.tree).evaluator]
    /\ fatal = Nil
    /\ conns = [i \in 1..NReq |-> IdleConn]
    /\ health = NoHealth
    /\ e = Nil
    /\ calls = <<>>
    /\ allCalls = <<>>
    /\ applied = <<>>

\* allowed, reason, err := ac.evaluateRequest(request)
CallEvaluateRequest(request) ==
    /\ Len(applied) < MaxCalls
    /\ applied' = Append(applied,
          [request |-> request, ret |-> evaluateRequest(ac, request)])
    /\ UNCHANGED <<gwVars, evVars>>

NextRoute == \E request \in RouteRequests : CallEvaluateRequest(request)

SpecRoute == InitRoute /\ [][NextRoute]_vars

Conns == 1..NReq

\* the reply of connection i is an AdmissionReview response
Answered(i) == conns[i].status = 200

(* C1: fail-closed.  Whenever Evaluate returned an error for a request     *)
(* (from the package query, the deny query or the warn query), the         *)
(* response sent has allowed = false and a status message describing the   *)
(* failure; no request whose evaluation failed is answered allowed = true. *)
C1_FailClosed ==
    \A i \in Conns :
        /\ conns[i].ev.outcome = "error" =>
              /\ Answered(i)
              /\ conns[i].response.Allowed = FALSE
              /\ conns[i].response.Result # Nil
              /\ conns[i].response.Result.Message =
                    "Error evaluating request: policy evaluation failed: "
                       \o conns[i].ev.err
        /\ conns[i].ev.outcome \in {"error", "panic"} =>
              ~(Answered(i) /\ conns[i].response.Allowed)

C1_Witness ==
    \E i, j \in Conns :
        /\ conns[i].ev.outcome = "error" /\ conns[i].ev.err = "evaluation failed"
        /\ conns[j].ev.outcome = "error"
        /\ conns[j].ev.err = "warning rule evaluation failed"
        /\ Answered(i) /\ Answered(j)
        /\ ~conns[i].response.Allowed /\ ~conns[j].response.Allowed

(* C2: uid correlation.  Every response sent carries the uid of the        *)
(* request of its own connection, whether it allows, denies because of     *)
(* violations or denies because of an evaluation error.                    *)
C2_UidCorrelation ==
    \A i \in Conns :
        Answered(i) => conns[i].response.UID = conns[i].request.UID

C2_Witness ==
    \E i, j \in Conns :
        /\ Answered(i) /\ Answered(j)
        /\ conns[i].request.UID = "u1" /\ conns[j].request.UID = "u2"
        /\ conns[i].response.UID = "u1" /\ conns[j].response.UID = "u2"
        /\ conns[i].response.Allowed /\ ~conns[j].response.Allowed

(* C3: decision rule.  A request is answered allowed = true exactly when   *)
(* Evaluate returned a result without violations; a result with violations *)
(* is answered allowed = false; an allowed response has no status message. *)
C3_DecisionRule ==
    \A i \in Conns :
        /\ (Answered(i) /\ conns[i].response.Allowed)
              <=> (conns[i].ev.outcome = "ok" /\ conns[i].ev.result.Violations = <<>>)
        /\ (conns[i].ev.outcome = "ok" /\ Len(conns[i].ev.result.Violations) > 0)
              => (Answered(i) /\ ~conns[i].response.Allowed)
        /\ conns[i].response.Allowed => conns[i].response.Result = Nil

C3_Witness ==
    \E i, j \in Conns :
        /\ Answered(i) /\ conns[i].response.Allowed /\ conns[i].response.Result = Nil
        /\ Answered(j) /\ ~conns[j].response.Allowed
        /\ conns[j].ev.outcome = "ok" /\ Len(conns[j].ev.result.Violations) > 0

\* the engine finds warnings and no violations for the request of connection i
OnlyWarnRulesFire(i) ==
    LET modules     == ac.evaluator.modules
        packagePath == PackagePathOf(conns[i].request.Kind)
        input       == AdmissionInput(conns[i].request)
        deny        == CollectionValue(modules, packagePath, "deny", input)
        warn        == CollectionValue(modules, packagePath, "warn", input)
    IN  /\ \A name \in {"data", "deny", "warn"} :
              ~EngineRaises(modules, packagePath, name, input)
        /\ warn.kind = "array" /\ Len(warn.elems) > 0
        /\ \A k \in 1..Len(warn.elems) : warn.elems[k].isString
        /\ deny.kind = "undefined" \/ (deny.kind = "array" /\ deny.elems = <<>>)

(* C4: warnings never block.  A request for which only warn rules fire     *)
(* gets a result with a non-empty warning set and is answered              *)
(* allowed = true; a result without violations is allowed whatever the     *)
(* number of its warnings.                                                 *)
C4_WarningsNeverBlock ==
    \A i \in Conns :
        /\ (conns[i].evalCalls > 0 /\ OnlyWarnRulesFire(i)) =>
              /\ conns[i].ev.outcome = "ok"
              /\ Len(conns[i].ev.result.Warnings) > 0
              /\ conns[i].ev.result.WarnCount > 0
              /\ Answered(i) /\ conns[i].response.Allowed
        /\ (conns[i].ev.outcome = "ok" /\ conns[i].ev.result.Violations = <<>>) =>
              (Answered(i) /\ conns[i].response.Allowed)

C4_Witness ==
    \E i \in Conns :
        /\ conns[i].ev.outcome = "ok"
        /\ Len(conns[i].ev.result.Warnings) > 0
        /\ conns[i].ev.result.Violations = <<>>
        /\ Answered(i) /\ conns[i].response.Allowed

(* C5: every request with the expected content type and a decodable        *)
(* AdmissionReview body is replied to with status 200, whatever the        *)
(* decision.  The handler panics, and nothing is replied, when the review  *)
(* has no request and when a deny or warn value is not a list of strings.  *)
C5_WellFormedGets200 ==
    \A i \in Conns :
        (conns[i].decoded /\ conns[i].pc \in {"done", "panicked"}) =>
            conns[i].status = 200

(* C6: a request whose content type is not application/json is replied to  *)
(* with 415; it is not decoded and Evaluate is not called for it, whatever *)
(* its body is.                                                            *)
C6_UnsupportedMediaType ==
    \A i \in Conns :
        (conns[i].pc # "idle" /\ conns[i].contentType # "application/json") =>
            /\ conns[i].pc = "done"
            /\ conns[i].status = 415
            /\ ~conns[i].decoded
            /\ conns[i].request = Nil
            /\ conns[i].evalCalls = 0
            /\ conns[i].ev = NoEval

C6_Witness ==
    \E i, j \in Conns :
        /\ conns[i].status = 415 /\ conns[i].bodyClass = "review"
        /\ conns[j].status = 415 /\ conns[j].bodyClass = "garbage"

(* C7: a request with the expected content type and an undecodable body is *)
(* replied to with 400 and Evaluate is not called for it; the server keeps *)
(* serving: the health endpoint can be called and answers 200 afterwards.  *)
C7_BadRequest ==
    /\ \A i \in Conns :
          (/\ conns[i].pc # "idle"
           /\ conns[i].contentType = "application/json"
           /\ conns[i].bodyClass \in {"empty", "garbage"}) =>
              /\ conns[i].pc = "done"
              /\ conns[i].status = 400
              /\ conns[i].evalCalls = 0
              /\ conns[i].ev = NoEval
    /\ (\E i \in Conns : conns[i].status = 400) =>
          (mainPc = "serving" /\ ENABLED healthCheckHandler)
    /\ health.after400 =>
          (health.status = 200 /\ health.payload = "{\"status\":\"ok\"}")

C7_Witness ==
    /\ \E i \in Conns : conns[i].status = 400 /\ conns[i].bodyClass = "garbage"
    /\ health.after400
    /\ health.status = 200

(* C8: while the server serves, the health endpoint can always answer, also *)
(* while admission requests are being evaluated; every answer is 200 with  *)
(* the fixed payload, and answering calls Evaluate for no connection.      *)
C8_HealthAlwaysAnswers ==
    /\ [](mainPc = "serving" => ENABLED healthCheckHandler)
    /\ [](health # NoHealth =>
            (health.status = 200 /\ health.payload = "{\"status\":\"ok\"}"))
    /\ [][health' # health => (conns' = conns /\ ac' = ac)]_vars

C8_Witness ==
    /\ health.duringEval
    /\ health.status = 200
    /\ \E i \in Conns : conns[i].pc = "evaluate"

\* the paths of the policy files of the directories of d
RegoPaths(d) ==
    UNION {{d.tree[dir][k].name \o d.tree[dir][k].ext :
               k \in {x \in 1..Len(d.tree[dir]) :
                         ~d.tree[dir][x].isDir /\ d.tree[dir][x].ext = ".rego"}} :
           dir \in {d.policyDirs[n] : n \in 1..Len(d.policyDirs)}}

\* the paths under the directories of d that fail to be walked, read or parsed
BadPaths(d) ==
    UNION {{d.tree[dir][k].name \o d.tree[dir][k].ext :
               k \in {x \in 1..Len(d.tree[dir]) :
                         \/ d.tree[dir][x].walkErr
                         \/ /\ ~d.tree[dir][x].isDir
                            /\ d.tree[dir][x].ext = ".rego"
                            /\ ~(d.tree[dir][x].readable /\ d.tree[dir][x].parses)}} :
           dir \in {d.policyDirs[n] : n \in 1..Len(d.policyDirs)}}

(* C9: all-or-nothing load.  If a policy file under a policy directory      *)
(* cannot be read or parsed, newAdmissionController fails with an error    *)
(* naming the file, no evaluator exists, main exits and no request is ever *)
(* received; a server that serves holds a module for every policy file.    *)
C9_AllOrNothingLoad ==
    /\ (BadPaths(disk) # {} /\ mainPc # "start") =>
          /\ mainPc = "exited"
          /\ ac = Nil
          /\ fatal # Nil
          /\ fatal.path \in BadPaths(disk)
          /\ \A i \in Conns : conns[i] = IdleConn
    /\ mainPc \in {"created", "serving"} =>
          /\ ac # Nil
          /\ BadPaths(disk) = {}
          /\ DOMAIN ac.evaluator.modules = RegoPaths(disk)
    /\ \A i \in Conns :
          conns[i].evalCalls > 0 => DOMAIN ac.evaluator.modules = RegoPaths(disk)

C9_Witness ==
    /\ mainPc = "exited"
    /\ fatal # Nil
    /\ fatal.why = "failed to parse policy file"
    /\ fatal.path = "policies/kubernetes/broken.rego"
    /\ ac = Nil

(***************************************************************************)
(* Properties of the evaluator (SpecEval).                                 *)
(***************************************************************************)
\* no module of e declares the package of the call
Unresolved(c) == \A p \in DOMAIN e.modules : e.modules[p].pkg # c.packagePath

AllCompile == \A p \in DOMAIN e.modules : \A f \in e.modules[p].raises : f.query # "compile"

NoFindings(c) ==
    c.ret.outcome = "ok" /\ c.ret.result.Violations = <<>> /\ c.ret.result.Warnings = <<>>

Handled(i) == conns[i].pc = "done" /\ conns[i].decoded

\* no loaded module declares the package the kind of the request routes to
NoPolicyFor(i) ==
    ModulesOf(ac.evaluator.modules, PackagePathOf(conns[i].request.Kind)) = {}

\* every loaded module of the controller compiles
Compiles(modules) ==
    \A p \in DOMAIN modules : \A f \in modules[p].raises : f.query # "compile"

EvaluateCalls ==
    {calls[i] : i \in DOMAIN calls}
    \cup UNION {{allCalls[i].ret.evaluated[k] : k \in DOMAIN allCalls[i].ret.evaluated} :
                   i \in DOMAIN allCalls}

C13_EvaluatorNotMutated == [][e' = e]_vars

C13_Witness ==
    /\ e = NewEvaluator(disk.policyDirs, disk.tree).evaluator
    /\ \E i \in DOMAIN calls : calls[i].ret.outcome = "error"
    /\ \E i \in DOMAIN allCalls :
          /\ allCalls[i].ret.outcome = "ok"
          /\ Len(allCalls[i].ret.results) = 2

(***************************************************************************)
(* Properties of concurrent admission requests (SpecServe).                *)
(***************************************************************************)
\* the evaluator as NewEvaluator makes it from the policy directories
Loaded == NewEvaluator(disk.policyDirs, disk.tree).evaluator

\* what Evaluate returns for the request of connection i when it is the
\* only request a server with the evaluator loaded is given
AloneEval(loaded, i) ==
    Evaluate(loaded, PackagePathOf(conns[i].request.Kind),
             AdmissionInput(conns[i].request))

\* the decision that follows from what Evaluate returned
AllowedBy(ret) == ret.outcome = "ok" /\ ret.result.Violations = <<>>

(* C14: once a request has come in, the module set of the evaluator is the *)
(* complete set loaded at start, and every request evaluated, whatever     *)
(* the other requests in flight, got from Evaluate what it would get       *)
(* if it were served alone, and the decision that follows from it.         *)
C14_SnapshotConsistency ==
    (\E i \in Conns : conns[i].pc # "idle") =>
        LET loaded == Loaded
        IN  /\ ac.evaluator = loaded
            /\ \A i \in Conns :
                  conns[i].evalCalls > 0 =>
                      LET alone == AloneEval(loaded, i)
                      IN  /\ conns[i].ev = alone
                          /\ conns[i].pc = "done" =>
                                (conns[i].response.Allowed <=> AllowedBy(alone))

C14_Witness ==
    \E i, j \in Conns :
        /\ i # j
        /\ conns[i].pc = "evaluate" /\ conns[j].pc = "done"
        /\ conns[j].evalCalls > 0
        /\ conns[i].request.Kind = conns[j].request.Kind
        /\ conns[j].ev.outcome = "ok"
        /\ Len(conns[j].ev.result.Violations) = 2

(***************************************************************************)
(* Properties of the controller under evaluations that do not return and   *)
(* clients that go away (SpecLive).                                        *)
(***************************************************************************)
(* C15 as claimed: the gateway bounds the evaluation of a request and      *)
(* answers not-allowed itself at the deadline, so that every decoded       *)
(* request that reaches the evaluation is eventually answered.             *)
C15_DeadlineAnswers ==
    \A i \in Conns :
        (conns[i].pc = "evaluate") ~> (conns[i].pc = "done" /\ Answered(i))

(* C16 as claimed: once the client of a request in evaluation has gone     *)
(* away, the evaluation of that request does not run to completion and no  *)
(* decision is taken from it; Evaluate is called at most once per request. *)
C16_DisconnectAborts ==
    \A i \in Conns :
        /\ conns[i].evalCalls <= 1
        /\ conns[i].gone => (conns[i].ev.outcome # "ok" /\ ~Answered(i))

(***************************************************************************)
(* Failures of an evaluation (Spec), EvaluateAll (SpecEval) and the pod    *)
(* policy behind the gateway (SpecGate).                                   *)
(***************************************************************************)
(* C17 as claimed: a request whose evaluation failed is answered           *)
(* not-allowed; the server goes on serving; and every evaluated request    *)
(* got what it would get if it were served alone.                          *)
C17_FailureIsolated ==
    \A i \in Conns :
        conns[i].evalCalls > 0 =>
            /\ mainPc = "serving"
            /\ conns[i].ev = AloneEval(Loaded, i)
            /\ conns[i].ev.outcome \in {"error", "panic"} =>
                  (Answered(i) /\ ~conns[i].response.Allowed)

\* the calls of Evaluate that call number i of EvaluateAll made for package p
CallsFor(i, p) ==
    {k \in DOMAIN allCalls[i].ret.evaluated :
        allCalls[i].ret.evaluated[k].packagePath = p}

\* the module set compiles and no package panics on the input of call i
NoPanics(i) ==
    /\ Compiles(e.modules)
    /\ \A p \in DistinctPackages(e.modules) :
          Evaluate(e, p, allCalls[i].input).outcome # "panic"

(* C18 as claimed: a call of EvaluateAll calls Evaluate exactly once for   *)
(* each distinct package of the loaded modules and for nothing else, with  *)
(* its own input, and returns one result per distinct package whose        *)
(* evaluation succeeds (here for module sets that compile and inputs on    *)
(* which no package panics).                                               *)
C18_OncePerPackage ==
    \A i \in DOMAIN allCalls :
        NoPanics(i) =>
            /\ \A p \in DistinctPackages(e.modules) : Cardinality(CallsFor(i, p)) = 1
            /\ \A k \in DOMAIN allCalls[i].ret.evaluated :
                  /\ allCalls[i].ret.evaluated[k].input = allCalls[i].input
                  /\ allCalls[i].ret.evaluated[k].packagePath
                        \in DistinctPackages(e.modules)
            /\ Len(allCalls[i].ret.results) =
                  Cardinality({p \in DistinctPackages(e.modules) :
                                  Evaluate(e, p, allCalls[i].input).outcome = "ok"})

(* C19 as claimed: when the evaluation of a package returns an error,      *)
(* every other package is still evaluated and the result of every package  *)
(* that succeeded is returned (here for module sets that compile and       *)
(* inputs on which no package panics).                                     *)
C19_ErrorDoesNotAbort ==
    \A i \in DOMAIN allCalls :
        (NoPanics(i) /\ allCalls[i].ret.outcome = "error") =>
            /\ \A p \in DistinctPackages(e.modules) : CallsFor(i, p) # {}
            /\ \A p \in DistinctPackages(e.modules) :
                  Evaluate(e, p, allCalls[i].input).outcome = "ok" =>
                      \E k \in DOMAIN allCalls[i].ret.results :
                          allCalls[i].ret.results[k]
                              = Evaluate(e, p, allCalls[i].input).result

(* C20 as claimed: a CREATE request of kind Pod whose object has a         *)
(* privileged container is answered not-allowed, and the message of the    *)
(* response holds the violation that names the container.                  *)
C20_PrivilegedPodDenied ==
    \A i \in Conns :
        (/\ Handled(i)
         /\ conns[i].request.Kind = <<"P","o","d">>
         /\ conns[i].request.Operation = "CREATE"
         /\ conns[i].request.Object.Raw.privileged) =>
            /\ Answered(i)
            /\ ~conns[i].response.Allowed
            /\ conns[i].ev.outcome = "ok"
            /\ \E k \in DOMAIN conns[i].ev.result.Violations :
                  conns[i].ev.result.Violations[k].Message = PrivilegedMessage
            /\ conns[i].response.Result =
                  [Message |-> JoinFrom(conns[i].ev.result.Violations, 1, "")]

(* C21 as claimed: a CREATE request of kind Pod whose object is the pod    *)
(* with nothing to object to (no privileged container, no host namespace,  *)
(* no host path, limits and probes set, a fixed image tag, the three       *)
(* required labels) is evaluated without error, has no violation, and is   *)
(* answered allowed.                                                       *)
C21_GoodPodAllowed ==
    \A i \in Conns :
        (/\ Handled(i)
         /\ conns[i].request.Kind = <<"P","o","d">>
         /\ conns[i].request.Operation = "CREATE"
         /\ conns[i].request.Object.Raw = GoodPod) =>
            /\ Answered(i)
            /\ conns[i].ev.outcome = "ok"
            /\ conns[i].ev.result.Violations = <<>>
            /\ conns[i].response.Allowed

\* the messages m1, m2, ... written one after the other with "; " between
\* two neighbours and nothing before the first or after the last
RECURSIVE Separated(_)
Separated(messages) ==
    IF Len(messages) = 1 THEN messages[1]
    ELSE messages[1] \o "; " \o Separated(Tail(messages))

MessagesOf(violations) == [k \in DOMAIN violations |-> violations[k].Message]

Denied(i) ==
    /\ Handled(i)
    /\ conns[i].ev.outcome = "ok"
    /\ conns[i].ev.result.Violations # <<>>

(* C22: when the evaluation of a request yields violations, the message of *)
(* the response is the violation messages, each once, with "; " between    *)
(* neighbours and no delimiter at either end; one violation alone gives    *)
(* exactly its message.                                                    *)
C22_JoinedMessage ==
    \A i \in Conns :
        Denied(i) =>
            LET messages == MessagesOf(conns[i].ev.result.Violations) IN
            /\ Answered(i)
            /\ ~conns[i].response.Allowed
            /\ \A k, l \in DOMAIN messages : messages[k] = messages[l] => k = l
            /\ conns[i].response.Result.Message = Separated(messages)
            /\ Len(messages) = 1 =>
                  conns[i].response.Result.Message = messages[1]

C22_Witness ==
    \E i \in Conns :
        /\ Denied(i)
        /\ Len(conns[i].ev.result.Violations) = 2
        /\ conns[i].response.Result.Message = "m1; m2"

MessageSet(result) == {result.Violations[k].Message : k \in DOMAIN result.Violations}

RoutedPackage(kind) ==
    IF kind \in {<<"P","o","d">>, <<"P","O","D">>}
    THEN "kubernetes.admission.pod"
    ELSE "kubernetes.admission.secret"

(* C24: the package a request is evaluated against is decided by its kind  *)
(* in lower case and by nothing else: requests of the same kind, and of    *)
(* kinds that differ in letter case only, go to the same package whatever  *)
(* their name, namespace, operation and object.                            *)
C24_RoutedByKind ==
    \A a, b \in 1..Len(applied) :
        /\ applied[a].ret.packagePath = RoutedPackage(applied[a].request.Kind)
        /\ RoutedPackage(applied[a].request.Kind) = RoutedPackage(applied[b].request.Kind)
              => applied[a].ret.packagePath = applied[b].ret.packagePath

C24_Witness ==
    \E a, b \in 1..Len(applied) :
        /\ applied[a].request.Kind = <<"P","o","d">>
        /\ applied[b].request.Kind = <<"P","O","D">>
        /\ applied[a].request.Name # applied[b].request.Name
        /\ applied[a].request.Namespace # applied[b].request.Namespace
        /\ applied[a].request.Operation # applied[b].request.Operation
        /\ applied[a].request.Object # applied[b].request.Object
        /\ applied[a].ret.packagePath = "kubernetes.admission.pod"
        /\ applied[b].ret.packagePath = "kubernetes.admission.pod"

\* the messages of the rules called name that the modules declaring the
\* package hold and that fire on the input
MessagesDeclared(modules, packagePath, name, input) ==
    {r.msg : r \in UNION {Collection(modules[p], name).rules :
                             p \in {q \in DOMAIN modules : modules[q].pkg = packagePath}}
                   \cap {x \in UNION {Collection(modules[p], name).rules : p \in DOMAIN modules} :
                            Fires(x, input)}}

NoRepeat(violations) ==
    \A k, l \in DOMAIN violations :
        violations[k].Message = violations[l].Message => k = l

(* C25: when Evaluate returns a result for a package, its violations are   *)
(* the deny messages of all the loaded modules that declare the package,   *)
(* each once, and its warnings the warn messages likewise; a message that  *)
(* two files yield is listed once, and modules of other packages add       *)
(* nothing.                                                                *)
C25_UnionOfModules ==
    \A c \in 1..Len(calls) :
        calls[c].ret.outcome = "ok" =>
            LET result == calls[c].ret.result IN
            /\ MessageSet(result) =
                  MessagesDeclared(e.modules, calls[c].packagePath, "deny", calls[c].input)
            /\ {result.Warnings[k].Message : k \in DOMAIN result.Warnings} =
                  MessagesDeclared(e.modules, calls[c].packagePath, "warn", calls[c].input)
            /\ NoRepeat(result.Violations)
            /\ NoRepeat(result.Warnings)

\* both files of the pod package are loaded, next to files of other
\* packages; "m1" comes from both files, "m2" from the second only
C25_Witness ==
    \E c \in 1..Len(calls) :
        /\ calls[c].ret.outcome = "ok"
        /\ calls[c].packagePath = PodPackage
        /\ Cardinality(ModulesOf(e.modules, PodPackage)) = 2
        /\ ModulesOf(e.modules, JobPackage) # {}
        /\ MessagesOf(calls[c].ret.result.Violations) = <<"m1", "m2">>
        /\ MessagesOf(calls[c].ret.result.Warnings) = <<"w1">>

CountsMatch(result) ==
    /\ result.FailCount = Len(result.Violations)
    /\ result.FailCount = Cardinality(MessageSet(result))
    /\ result.WarnCount = Len(result.Warnings)
    /\ result.WarnCount =
          Cardinality({result.Warnings[k].Message : k \in DOMAIN result.Warnings})

(* C26: in every result Evaluate returns, for a package with modules and   *)
(* for one without, the failure count is the number of violations and the  *)
(* warning count the number of warnings; so it is in the results           *)
(* EvaluateAll collects.                                                   *)
C26_CountsMatch ==
    /\ \A c \in 1..Len(calls) :
          calls[c].ret.outcome = "ok" => CountsMatch(calls[c].ret.result)
    /\ \A c \in 1..Len(allCalls) :
          allCalls[c].ret.outcome = "ok" =>
             \A k \in DOMAIN allCalls[c].ret.results :
                CountsMatch(allCalls[c].ret.results[k])

C26_Witness ==
    \E c, d \in 1..Len(calls) :
        /\ calls[c].ret.outcome = "ok"
        /\ ModulesOf(e.modules, calls[c].packagePath) # {}
        /\ calls[c].ret.result.FailCount = 2
        /\ calls[c].ret.result.WarnCount = 1
        /\ calls[d].ret.outcome = "ok"
        /\ ModulesOf(e.modules, calls[d].packagePath) = {}
        /\ calls[d].ret.result.FailCount = 0
        /\ calls[d].ret.result.WarnCount = 0

\* the entries the walks of the roots visit that are files named *.rego
PolicyFiles(d) ==
    UNION {{d.tree[r][k] : k \in {j \in DOMAIN d.tree[r] :
                                     /\ ~d.tree[r][j].isDir
                                     /\ d.tree[r][j].ext = ".rego"}} :
              r \in {d.policyDirs[i] : i \in DOMAIN d.policyDirs}}

(* C27 as claimed: after a successful load the evaluator holds one module  *)
(* for each file named *.rego under any root, a file that two roots reach  *)
(* counted once, and no other module.                                      *)
C27_OncePerFile ==
    e # Nil =>
        Cardinality(DOMAIN e.modules) =
            Cardinality({Abs(en.name \o en.ext) : en \in PolicyFiles(disk)})

(* C27 amended: after a successful load the modules are keyed by the paths *)
(* under which the walks report the files named *.rego, directories left   *)
(* out, and each path holds the module parsed from that file: a file is    *)
(* held once for each distinct path it is reached under.                   *)
C27_OncePerPath ==
    e # Nil =>
        /\ DOMAIN e.modules = {en.name \o en.ext : en \in PolicyFiles(disk)}
        /\ \A en \in PolicyFiles(disk) : e.modules[en.name \o en.ext] = en.module

\* DiskOverlap: the file under both roots is held once; the notes, the
\* backup copy and the directory named old.rego are not held
C27_Witness ==
    /\ e # Nil
    /\ Len(disk.policyDirs) = 2
    /\ \E en \in PolicyFiles(disk) :
          \A r \in DOMAIN disk.tree : \E k \in DOMAIN disk.tree[r] : disk.tree[r][k] = en
    /\ \E r \in DOMAIN disk.tree : \E k \in DOMAIN disk.tree[r] :
          disk.tree[r][k].isDir /\ disk.tree[r][k].ext = ".rego"
    /\ DOMAIN e.modules = {"policies/kubernetes/pod.rego"}

(* C28 as claimed: every call of Evaluate on a loaded package returns a    *)
(* result or an error, also when deny or warn of the package is not a set  *)
(* of strings, and every call of EvaluateAll returns.                      *)
C28_EvaluateReturns ==
    /\ \A c \in 1..Len(calls) :
          ModulesOf(e.modules, calls[c].packagePath) # {} =>
             calls[c].ret.outcome \in {"ok", "error"}
    /\ \A c \in 1..Len(allCalls) : allCalls[c].ret.outcome \in {"ok", "error"}

(* C29 as claimed: a request whose handler has ended has been given one    *)
(* reply, with status 415, 400, or 200 and a response that carries the uid *)
(* and the decision; a review without its request is among them, and is    *)
(* not answered allowed.                                                   *)
C29_AlwaysOneReply ==
    \A i \in Conns :
        conns[i].pc \in {"done", "panicked"} =>
            /\ conns[i].status \in
                  {StatusUnsupportedMediaType, StatusBadRequest, StatusOK}
            /\ conns[i].status = StatusOK =>
                  /\ conns[i].response # NoResponse
                  /\ conns[i].response.Allowed \in BOOLEAN
            /\ (conns[i].decoded /\ conns[i].request = Nil) =>
                  ~(conns[i].response # NoResponse /\ conns[i].response.Allowed)

(* C30 as claimed: a request routed to the pod package that is not a       *)
(* CREATE of kind Pod (an UPDATE of a Pod, or a kind written POD) has no   *)
(* violation and no warning and is answered allowed, also when a container *)
(* of the object is privileged.                                            *)
C30_OnlyCreatePod ==
    \A i \in Conns :
        (/\ Handled(i)
         /\ conns[i].request.Kind \in {<<"P","o","d">>, <<"P","O","D">>}
         /\ \/ conns[i].request.Operation # "CREATE"
            \/ conns[i].request.Kind # <<"P","o","d">>) =>
            /\ Answered(i)
            /\ conns[i].ev.outcome = "ok"
            /\ conns[i].ev.result.Violations = <<>>
            /\ conns[i].ev.result.Warnings = <<>>
            /\ conns[i].response.Allowed

====
